---------------------------- MODULE Spec2Model ----------------------------
(***************************************************************************)
(* A model of elia_chat/config.py (the model catalogue and LaunchConfig)   *)
(* and of elia_chat/screens/message_info_modal.py (the Message Info modal). *)
(*                                                                         *)
(* The two components share no state.  ConfigSpec runs the operations on   *)
(* the launch configuration, ModalSpec the life of one modal.              *)
(***************************************************************************)
EXTENDS Integers, Sequences, FiniteSets, TLC

VARIABLES
    \* ---- config.py ----
    env,          \* the process environment's ELIA_SYSTEM_PROMPT (<<>> unset, <<v>> set)
    loaded,       \* whether elia_chat.config has been imported
    envAtLoad,    \* the value ELIA_SYSTEM_PROMPT had when the module was imported
    fieldDefault, \* the default stored in LaunchConfig.system_prompt's Field
    kwargs,       \* the keyword arguments of the latest LaunchConfig(...) call
    cfg,          \* the latest LaunchConfig instance (<<>> none, <<c>> the instance)
    held,         \* which list object the holder of cfg has a reference to
    heldCopy,     \* the list object returned by the latest all_models call
    nmut,         \* number of in-place list modifications made on cfg's lists
    lastOp,       \* "construct" right after LaunchConfig(...), "other" after any other step
    err,          \* the exception raised by the latest operation
    \* ---- message_info_modal.py ----
    modal,        \* the MessageInfo instance (<<>> none, <<m>> the instance)
    phase,        \* "none", "constructed", "composed", "failed", "dismissed"
    tree,         \* the widgets compose() produced
    mounted,      \* whether the Tabs strip has been mounted
    history,      \* the tab-activation events delivered to tab_activated so far
    encodeCalls,  \* number of tokenizer invocations
    raised        \* the exception that escaped compose()

cfgVars == <<env, loaded, envAtLoad, fieldDefault, kwargs, cfg, held, heldCopy,
             nmut, lastOp, err>>
modalVars == <<modal, phase, tree, mounted, history, encodeCalls, raised>>
vars == <<cfgVars, modalVars>>

-----------------------------------------------------------------------------
(* Bounds of the model. *)
MaxModels == 2
MaxListLen == 8
MaxMutations == 1

-----------------------------------------------------------------------------
(* Python's None, and optional values. *)
None == "None"
Absent == <<>>
Present(v) == <<v>>
Opt(S) == {Absent} \cup {Present(v) : v \in S}

\* All sequences over S of length at most n.
SeqUpTo(S, n) == UNION {[1..k -> S] : k \in 0..n}

-----------------------------------------------------------------------------
(* config.py: EliaChatModel *)

\* EliaChatModel(name=..., display_name=..., provider=..., product=...,
\* description=...), the other fields taking their declared defaults.
\* temperature's default is the literal the Field gives (1.0).
EliaChatModel(name, display_name, provider, product, description) ==
    [name |-> name,
     display_name |-> display_name,
     provider |-> provider,
     api_key |-> None,
     api_base |-> None,
     organization |-> None,
     description |-> description,
     product |-> product,
     temperature |-> 1,
     max_retries |-> 0]

get_builtin_openai_models ==
    << EliaChatModel("gpt-3.5-turbo", "GPT-3.5 Turbo", "OpenAI", "ChatGPT",
           "The fastest ChatGPT model, great for most everyday tasks"),
       EliaChatModel("gpt-4-turbo", "GPT-4 Turbo", "OpenAI", "ChatGPT",
           "The most powerful ChatGPT model, capable of complex tasks which require advanced reasoning") >>

get_builtin_anthropic_models ==
    << EliaChatModel("claude-3-haiku-20240307", "Claude 3 Haiku", "Anthropic", "Claude 3",
           "Fastest and most compact model for near-instant responsiveness"),
       EliaChatModel("claude-3-sonnet-20240229", "Claude 3 Sonnet", "Anthropic", "Claude 3",
           "Ideal balance of intelligence and speed for enterprise workloads"),
       EliaChatModel("claude-3-opus-20240229", "Claude 3 Opus", "Anthropic", "Claude 3",
           "Most powerful model for highly complex tasks") >>

get_builtin_models ==
    get_builtin_openai_models \o get_builtin_anthropic_models

-----------------------------------------------------------------------------
(* config.py: LaunchConfig *)

DEFAULT_SYSTEM_PROMPT == "You are a helpful assistant named Elia."
DEFAULT_MODEL == "gpt-3.5-turbo"

os_getenv_ignored(e, default) == default

\* os.getenv(key, default) on an environment where key is unset (<<>>) or
\* set to e[1].
os_getenv(e, default) == IF e = Absent THEN default ELSE e[1]

frozen_off == FALSE

\* model_config = ConfigDict(frozen=True)
frozen == TRUE

\* The user models of the model: one with a name of its own and one that
\* carries a builtin's name.
UserModels ==
    { EliaChatModel("my-local-model", "Local", "LocalAI", None, None),
      EliaChatModel("gpt-4-turbo", "My GPT-4", "Azure", None, None) }

EnvValues == {"X"}
PromptArgs == {"custom prompt"}
ModelsArgs == SeqUpTo(UserModels, MaxModels)
BuiltinArgs == { <<EliaChatModel("my-local-model", "Local", "LocalAI", None, None)>> }

EmptyKwargs == [k \in {} |-> None]
Kw(name, o) == IF o = Absent THEN EmptyKwargs ELSE name :> o[1]

\* kw[name] if the caller passed it, else the field's default.
FieldValue(kw, name, default) ==
    IF name \in DOMAIN kw THEN kw[name] ELSE default

\* LaunchConfig(**kw).  Every declared field is looked up in the arguments
\* and takes its default (or default_factory()) when it is not there;
\* Field(init=False) is read only by pydantic dataclasses, so on this
\* BaseModel builtin_models is looked up like the other fields.
\* d is the default stored in system_prompt's Field.
LaunchConfig(kw, d) ==
    [default_model |-> FieldValue(kw, "default_model", DEFAULT_MODEL),
     system_prompt |-> FieldValue(kw, "system_prompt", d),
     models |-> FieldValue(kw, "models", <<>>),
     builtin_models |-> FieldValue(kw, "builtin_models", get_builtin_models)]

\* The all_models property: a new list, models + builtin_models.
all_models(c) == c.models \o c.builtin_models

\* What a holder of the config reads from it.
Observable(c) ==
    [default_model |-> c.default_model,
     system_prompt |-> c.system_prompt,
     models |-> c.models,
     builtin_models |-> c.builtin_models,
     all_models |-> all_models(c)]

-----------------------------------------------------------------------------
(* Operations on the configuration *)

CfgInit ==
    /\ env \in Opt(EnvValues)
    /\ loaded = FALSE
    /\ envAtLoad = Absent
    /\ fieldDefault = DEFAULT_SYSTEM_PROMPT
    /\ kwargs = EmptyKwargs
    /\ cfg = Absent
    /\ held = "none"
    /\ heldCopy = <<>>
    /\ nmut = 0
    /\ lastOp = "start"
    /\ err = "none"

\* os.environ["ELIA_SYSTEM_PROMPT"] = v, at any time.
SetEnv(v) ==
    /\ env # Present(v)
    /\ env' = Present(v)
    /\ lastOp' = "other"
    /\ UNCHANGED <<loaded, envAtLoad, fieldDefault, kwargs, cfg, held, heldCopy, nmut, err>>

\* del os.environ["ELIA_SYSTEM_PROMPT"], at any time.
UnsetEnv ==
    /\ env # Absent
    /\ env' = Absent
    /\ lastOp' = "other"
    /\ UNCHANGED <<loaded, envAtLoad, fieldDefault, kwargs, cfg, held, heldCopy, nmut, err>>

\* import elia_chat.config: the class body runs once, and with it the
\* os.getenv call that is the argument of Field(default=...).
LoadModule ==
    /\ ~loaded
    /\ loaded' = TRUE
    /\ envAtLoad' = env
    /\ fieldDefault' = os_getenv(env, DEFAULT_SYSTEM_PROMPT)
    /\ lastOp' = "other"
    /\ UNCHANGED <<env, kwargs, cfg, held, heldCopy, nmut, err>>

\* LaunchConfig(**kw)
Construct(kw) ==
    /\ loaded
    /\ kwargs' = kw
    /\ cfg' = Present(LaunchConfig(kw, fieldDefault))
    /\ held' = "none"
    /\ heldCopy' = <<>>
    /\ nmut' = 0
    /\ lastOp' = "construct"
    /\ err' = "none"
    /\ UNCHANGED <<env, loaded, envAtLoad, fieldDefault>>

\* cfg.<field> = value: BaseModel.__setattr__ raises on a frozen model.
SetAttr(field, value) ==
    /\ cfg # Absent
    /\ IF frozen
         THEN /\ err' = "ValidationError"
              /\ cfg' = cfg
         ELSE /\ err' = "none"
              /\ cfg' = Present([cfg[1] EXCEPT ![field] = value])
    /\ lastOp' = "other"
    /\ UNCHANGED <<env, loaded, envAtLoad, fieldDefault, kwargs, held, heldCopy, nmut>>

\* xs = cfg.models / xs = cfg.builtin_models: the field's own list object.
GetField(field) ==
    /\ cfg # Absent
    /\ held' = field
    /\ heldCopy' = <<>>
    /\ lastOp' = "other"
    /\ err' = "none"
    /\ UNCHANGED <<env, loaded, envAtLoad, fieldDefault, kwargs, cfg, nmut>>

\* xs = cfg.all_models: the property builds a list of its own.
GetAllModels ==
    /\ cfg # Absent
    /\ held' = "all_models"
    /\ heldCopy' = all_models(cfg[1])
    /\ lastOp' = "other"
    /\ err' = "none"
    /\ UNCHANGED <<env, loaded, envAtLoad, fieldDefault, kwargs, cfg, nmut>>

\* The list object xs refers to.
HeldList == IF held = "all_models" THEN heldCopy ELSE cfg[1][held]

\* list.append(x), list.pop(0) and xs[0] = x.
ListAppend(xs, x) == Append(xs, x)
ListPopFirst(xs) == Tail(xs)
ListSetFirst(xs, x) == [xs EXCEPT ![1] = x]

\* An in-place modification that leaves xs holding new.
Store(new) ==
    /\ IF held = "all_models"
         THEN /\ heldCopy' = new
              /\ cfg' = cfg
         ELSE /\ cfg' = Present([cfg[1] EXCEPT ![held] = new])
              /\ heldCopy' = heldCopy
    /\ nmut' = nmut + 1
    /\ lastOp' = "other"
    /\ err' = "none"
    /\ UNCHANGED <<env, loaded, envAtLoad, fieldDefault, kwargs, held>>

MutAppend(x) ==
    /\ held # "none" /\ nmut < MaxMutations
    /\ Len(HeldList) < MaxListLen
    /\ Store(ListAppend(HeldList, x))

MutRemove ==
    /\ held # "none" /\ nmut < MaxMutations
    /\ HeldList # <<>>
    /\ Store(ListPopFirst(HeldList))

MutReplace(x) ==
    /\ held # "none" /\ nmut < MaxMutations
    /\ HeldList # <<>>
    /\ Store(ListSetFirst(HeldList, x))

\* The entry the holder appends or stores.
NewEntry == EliaChatModel("injected", None, None, None, None)

ModalIdle == UNCHANGED modalVars

CfgNext ==
    \/ \E v \in EnvValues : SetEnv(v) /\ ModalIdle
    \/ UnsetEnv /\ ModalIdle
    \/ LoadModule /\ ModalIdle
    \/ \E sp \in Opt(PromptArgs), ms \in Opt(ModelsArgs), bs \in Opt(BuiltinArgs) :
            Construct(Kw("system_prompt", sp) @@ Kw("models", ms)
                        @@ Kw("builtin_models", bs)) /\ ModalIdle
    \/ SetAttr("system_prompt", "changed") /\ ModalIdle
    \/ SetAttr("models", <<>>) /\ ModalIdle
    \/ \E f \in {"models", "builtin_models"} : GetField(f) /\ ModalIdle
    \/ GetAllModels /\ ModalIdle
    \/ MutAppend(NewEntry) /\ ModalIdle
    \/ MutRemove /\ ModalIdle
    \/ MutReplace(NewEntry) /\ ModalIdle

-----------------------------------------------------------------------------
(* message_info_modal.py: the collaborators *)

MaxContent == 2
MaxEvents == 3

Chars == {"a", "b"}
Contents == SeqUpTo(Chars, MaxContent)
Timestamps == {0, 75}

\* A BaseMessage: content (None or a string) and additional_kwargs (a dict
\* that may hold "timestamp").
Messages ==
    { [content |-> c, additional_kwargs |-> Kw("timestamp", t)] :
        c \in Opt(Contents), t \in Opt(Timestamps) }

ModelNames ==
    {"gpt-3.5-turbo", "gpt-4-turbo", "text-davinci-003",
     "claude-3-opus-20240229", "not-a-real-model", ""}

encoding_for_model_fallback(model_name) == Present("cl100k_base")

\* tiktoken.encoding_for_model(model_name): the encoding of a model the
\* tokenizer knows, and a KeyError (Absent) for any other name, the empty
\* one included.
encoding_for_model(model_name) ==
    CASE model_name \in {"gpt-3.5-turbo", "gpt-4-turbo"} -> Present("cl100k_base")
      [] model_name = "text-davinci-003" -> Present("p50k_base")
      [] OTHER -> Absent

\* Encoding.encode(text): a byte-pair tokenizer.  Both vocabularies hold the
\* single characters ("a" is 1, "b" is 2); cl100k_base also holds the merged
\* pair "ab" (3).
RECURSIVE encode(_, _)
encode(encoder, text) ==
    IF text = <<>> THEN <<>>
    ELSE IF encoder = "cl100k_base" /\ Len(text) >= 2 /\ text[1] = "a" /\ text[2] = "b"
         THEN <<3>> \o encode(encoder, SubSeq(text, 3, Len(text)))
         ELSE <<(IF text[1] = "a" THEN 1 ELSE 2)>> \o encode(encoder, Tail(text))

\* elia_chat.time_display.format_timestamp(value): minutes and seconds.
format_timestamp(value) == <<value \div 60, ":", value % 60>>

\* dict.get(key, default)
dict_get(d, key, default) == IF key \in DOMAIN d THEN d[key] ELSE default

\* self.message.content or ""
content_or_empty(content) ==
    IF content = Absent \/ content[1] = <<>> THEN <<>> ELSE content[1]

-----------------------------------------------------------------------------
(* message_info_modal.py: MessageInfo *)

Tab(label, id) == [label |-> label, id |-> id]

ComposeTabs_wrong_id ==
    << Tab("Markdown", "markdown"), Tab("Tokens", "tokens"), Tab("Metadata", "metadata") >>

\* Tabs(Tab("Markdown", id="markdown-content"), Tab("Tokens", id="tokens"),
\*      Tab("Metadata", id="metadata"))
ComposeTabs ==
    << Tab("Markdown", "markdown-content"), Tab("Tokens", "tokens"),
       Tab("Metadata", "metadata") >>

switcher_initial_tokens == "tokens"

\* ContentSwitcher(initial="markdown-content")
switcher_initial == "markdown-content"

\* ContentSwitcher.current = id: the child with that id is displayed and
\* every other child is hidden.
set_current(sw, id) ==
    [current |-> id,
     children |-> [i \in DOMAIN sw.children |->
                     [sw.children[i] EXCEPT !.display = (sw.children[i].id = id)]]]

\* The ContentSwitcher of compose(), with its three children.
ComposeSwitcher(markdown_content, tokens, encoder) ==
    set_current(
        [current |-> switcher_initial,
         children |-> << [id |-> "markdown-content", widget |-> "Static",
                          shows |-> markdown_content, display |-> FALSE],
                         [id |-> "tokens", widget |-> "TokenAnalysis",
                          shows |-> <<tokens, encoder>>, display |-> FALSE],
                         [id |-> "metadata", widget |-> "Static",
                          shows |-> "Metadata", display |-> FALSE] >>],
        switcher_initial)

Unbound == <<>>

token_count_inverted(model_name, tokens) ==
    IF model_name = "" THEN Present(Len(tokens)) ELSE Unbound

\* if self.model_name: token_count = len(tokens)
token_count(model_name, tokens) ==
    IF model_name # "" THEN Present(Len(tokens)) ELSE Unbound

\* Static(f"Message sent at {timestamp_string}", id="timestamp")
TimestampStatic(message) ==
    [id |-> "timestamp",
     text |-> <<"Message sent at ",
                format_timestamp(dict_get(message.additional_kwargs, "timestamp", 0))>>]

\* Static(f"{token_count} tokens", id="token-count")
TokenCountStatic(n) == [id |-> "token-count", text |-> <<n, " tokens">>]

\* MessageInfo(message, model_name): the two arguments are stored.
ModalConstruct(message, model_name) ==
    /\ phase = "none"
    /\ modal' = Present([message |-> message, model_name |-> model_name])
    /\ phase' = "constructed"
    /\ UNCHANGED <<tree, mounted, history, encodeCalls, raised>>

\* compose(), run when the screen is pushed.
Compose ==
    /\ phase = "constructed"
    /\ LET m == modal[1]
           markdown_content == content_or_empty(m.message.content)
           encoder == encoding_for_model(m.model_name)
       IN IF encoder = Absent
            THEN \* line 37 raises before any widget is made
                 /\ phase' = "failed"
                 /\ raised' = "KeyError"
                 /\ UNCHANGED <<tree, encodeCalls>>
            ELSE LET tokens == encode(encoder[1], markdown_content)
                     count == token_count(m.model_name, tokens)
                     header == ComposeTabs
                     switcher == ComposeSwitcher(markdown_content, tokens, encoder[1])
                 IN /\ encodeCalls' = encodeCalls + 1
                    /\ IF count = Unbound
                         THEN \* line 61 reads a name that was never bound
                              /\ phase' = "failed"
                              /\ raised' = "UnboundLocalError"
                              /\ tree' = Present([tabs |-> header, switcher |-> switcher,
                                                  footer |-> <<TimestampStatic(m.message)>>])
                         ELSE /\ phase' = "composed"
                              /\ raised' = "none"
                              /\ tree' = Present([tabs |-> header, switcher |-> switcher,
                                                  footer |-> <<TimestampStatic(m.message),
                                                               TokenCountStatic(count[1])>>])
    /\ UNCHANGED <<modal, mounted, history>>

TabActivated(tab, source) == [tab |-> tab, source |-> source]

tab_activated_first_wins(event) ==
    /\ tree' = Present([tree[1] EXCEPT !.switcher =
                  IF @.current = switcher_initial THEN set_current(@, event.tab.id) ELSE @])
    /\ UNCHANGED <<modal, encodeCalls, raised>>

tab_activated_recount(event) ==
    /\ tree' = Present([tree[1] EXCEPT !.switcher = set_current(@, event.tab.id)])
    /\ encodeCalls' = encodeCalls + 1
    /\ UNCHANGED <<modal, raised>>

\* @on(Tabs.TabActivated): self.query_one(ContentSwitcher).current = event.tab.id
tab_activated(event) ==
    /\ tree' = Present([tree[1] EXCEPT !.switcher = set_current(@, event.tab.id)])
    /\ UNCHANGED <<modal, encodeCalls, raised>>

\* The Tabs strip is mounted: it activates its first tab, and the event
\* reaches the handler.
TabsMount ==
    /\ phase = "composed" /\ ~mounted
    /\ mounted' = TRUE
    /\ LET event == TabActivated(tree[1].tabs[1], "mount")
       IN /\ tab_activated(event)
          /\ history' = Append(history, event)
    /\ UNCHANGED phase

\* The user activates the i-th tab.
ActivateTab(i) ==
    /\ phase = "composed" /\ mounted
    /\ Len(history) < MaxEvents
    /\ LET event == TabActivated(tree[1].tabs[i], "user")
       IN /\ tab_activated(event)
          /\ history' = Append(history, event)
    /\ UNCHANGED <<phase, mounted>>

\* Binding("escape", "app.pop_screen", "Close Modal")
Dismiss ==
    /\ phase = "composed" /\ mounted
    /\ phase' = "dismissed"
    /\ UNCHANGED <<modal, tree, mounted, history, encodeCalls, raised>>

CfgIdle == UNCHANGED cfgVars

ModalNext ==
    \/ \E message \in Messages, model_name \in ModelNames :
          ModalConstruct(message, model_name) /\ CfgIdle
    \/ Compose /\ CfgIdle
    \/ TabsMount /\ CfgIdle
    \/ \E i \in 1..3 : ActivateTab(i) /\ CfgIdle
    \/ Dismiss /\ CfgIdle

ModalInit ==
    /\ modal = Absent
    /\ phase = "none"
    /\ tree = <<>>
    /\ mounted = FALSE
    /\ history = <<>>
    /\ encodeCalls = 0
    /\ raised = "none"

Init == CfgInit /\ ModalInit

ConfigSpec == Init /\ [][CfgNext]_vars

ModalSpec == Init /\ [][ModalNext]_vars

-----------------------------------------------------------------------------
(* Properties of LaunchConfig, checked under ConfigSpec *)

JustConstructed == cfg # Absent /\ lastOp = "construct"
PassedModels == FieldValue(kwargs, "models", <<>>)
BuiltinNames ==
    <<"gpt-3.5-turbo", "gpt-4-turbo", "claude-3-haiku-20240307",
      "claude-3-sonnet-20240229", "claude-3-opus-20240229">>

\* C1: for every constructed LaunchConfig with a user models list of length
\* n, all_models is the n user models in their order followed by the five
\* builtin models in their order: its length is n + 5, nothing is dropped,
\* and for n = 0 it equals builtin_models.
C1_AllModelsIsUserThenFiveBuiltins ==
    JustConstructed =>
        LET all == all_models(cfg[1])
            n == Len(PassedModels)
        IN /\ Len(all) = n + 5
           /\ SubSeq(all, 1, n) = PassedModels
           /\ [i \in 1..5 |-> all[n + i].name] = BuiltinNames
           /\ (n = 0 => all = cfg[1].builtin_models)

\* C2 as stated: a LaunchConfig constructed without an explicit
\* system_prompt has the value ELIA_SYSTEM_PROMPT has at the moment of
\* construction, or the default prompt when it is unset at that moment.
C2_PromptFollowsEnvAtConstruction ==
    (JustConstructed /\ "system_prompt" \notin DOMAIN kwargs) =>
        cfg[1].system_prompt =
            (IF env = Absent THEN "You are a helpful assistant named Elia." ELSE env[1])

\* C2 as amended: a LaunchConfig constructed without an explicit
\* system_prompt has the value ELIA_SYSTEM_PROMPT had when the config module
\* was imported, or the default prompt when it was unset then; an explicit
\* system_prompt is taken as given.
C2_PromptFollowsEnvAtImport ==
    JustConstructed =>
        cfg[1].system_prompt =
            (IF "system_prompt" \in DOMAIN kwargs THEN kwargs.system_prompt
             ELSE IF envAtLoad = Absent THEN "You are a helpful assistant named Elia."
             ELSE envAtLoad[1])

\* A config constructed without a system_prompt after the variable was
\* changed since the import.
C2_Witness ==
    /\ JustConstructed
    /\ "system_prompt" \notin DOMAIN kwargs
    /\ envAtLoad # Absent
    /\ env # envAtLoad

C4_BuiltinModelsNotSettable ==
    JustConstructed =>
        /\ Len(cfg[1].builtin_models) = 5
        /\ [i \in 1..5 |-> cfg[1].builtin_models[i].name] = BuiltinNames
        /\ cfg[1].builtin_models = get_builtin_openai_models \o get_builtin_anthropic_models

-----------------------------------------------------------------------------
(* Properties of the Message Info modal, checked under ModalSpec *)

Composed == phase = "composed"
Switcher == tree[1].switcher
ViewIds == {"markdown-content", "tokens", "metadata"}
Shown == {i \in DOMAIN Switcher.children : Switcher.children[i].display}

\* C5: after any sequence of tab activations the content switcher's current
\* view is the identifier of the most recently activated tab.
C5_LastActivationWins ==
    (Composed /\ history # <<>>) =>
        Switcher.current = history[Len(history)].tab.id

\* Two activations of different tabs have been delivered after the mount.
C5_Witness ==
    /\ Composed
    /\ Len(history) >= 3
    /\ history[Len(history)].tab.id # history[Len(history) - 1].tab.id
    /\ history[Len(history)].tab.id # history[1].tab.id

\* C6: a composed modal starts on the markdown view, whatever the message,
\* and stays on it until the user activates another tab; the activation the
\* tab strip makes when it is mounted does not move it.
C6_MarkdownUntilAnotherTab ==
    (Composed /\ \A i \in DOMAIN history :
                    history[i].source = "user" => history[i].tab.id = "markdown-content") =>
        /\ Switcher.current = "markdown-content"
        /\ \A i \in Shown : Switcher.children[i].id = "markdown-content"
        /\ Shown # {}

\* The tab strip was mounted on a modal whose message has content, and the
\* view is still the markdown one.
C6_Witness ==
    /\ Composed /\ mounted
    /\ modal[1].message.content \notin {Absent, Present(<<>>)}
    /\ Len(history) = 1 /\ history[1].source = "mount"
    /\ Switcher.current = "markdown-content"

RecognisedNames == {"gpt-3.5-turbo", "gpt-4-turbo", "text-davinci-003"}

\* C7 as stated: constructing a modal with a model name the tokenizer does
\* not know fails: no modal instance exists afterwards.
C7_NoInstanceForUnknownModel ==
    modal # Absent => modal[1].model_name \in RecognisedNames

\* C7 as amended: constructing a modal with a model name the tokenizer does
\* not know succeeds and stores the name; composing that modal fails with
\* the tokenizer's lookup error before any part of the view tree is made.
C7_UnknownModelFailsAtCompose ==
    (modal # Absent /\ modal[1].model_name \notin RecognisedNames) =>
        /\ phase \in {"constructed", "failed"}
        /\ tree = Absent
        /\ encodeCalls = 0
        /\ (phase = "failed" => raised = "KeyError")
        /\ (phase = "constructed" => raised = "none")

\* Composition of a modal made for an unknown model has failed.
C7_Witness ==
    /\ modal # Absent
    /\ modal[1].model_name = "not-a-real-model"
    /\ phase = "failed"
    /\ tree = Absent

\* C8: in a composed modal the current selection is one of the three view
\* identifiers, names an existing child, and exactly one view is shown.
C8_CurrentIsAnExistingView ==
    Composed =>
        /\ Switcher.current \in ViewIds
        /\ \E i \in DOMAIN Switcher.children : Switcher.children[i].id = Switcher.current
        /\ Cardinality(Shown) = 1
        /\ \A i \in Shown : Switcher.children[i].id = Switcher.current

\* The metadata view is shown after a tab activation.
C8_Witness ==
    /\ Composed
    /\ Len(history) >= 2
    /\ Switcher.current = "metadata"

\* What a view holds, apart from whether it is displayed.
Held(child) == [id |-> child.id, widget |-> child.widget, shows |-> child.shows]

\* C9: a tab activation changes only the content switcher's selection: the
\* footer, the tokens of the token-analysis view, the views' content, the
\* tabs, the message and the model name stay, and the tokenizer is not
\* called again.
C9_ActivationChangesOnlySelection ==
    [][(Composed /\ phase' = "composed") =>
          /\ tree'[1].footer = tree[1].footer
          /\ tree'[1].tabs = tree[1].tabs
          /\ \A i \in DOMAIN Switcher.children :
                Held(tree'[1].switcher.children[i]) = Held(Switcher.children[i])
          /\ DOMAIN tree'[1].switcher.children = DOMAIN Switcher.children
          /\ modal' = modal
          /\ encodeCalls' = encodeCalls
          /\ encodeCalls = 1]_vars

\* The view was switched more than once.
C9_Witness ==
    /\ Composed
    /\ Len(history) >= 3
    /\ Switcher.current # "markdown-content"
    /\ history[2].tab.id # history[3].tab.id

\* C10: whenever composition reaches the footer the token count is defined
\* and is the number of tokens of the content (the empty string for absent
\* content), so 0 for empty or absent content; without a timestamp in the
\* metadata the footer shows the formatted form of 0.
C10_FooterCountAndTimestamp ==
    /\ raised # "UnboundLocalError"
    /\ Composed =>
        LET m == modal[1]
            footer == tree[1].footer
            tokens == Switcher.children[2].shows[1]
        IN /\ Len(footer) = 2
           /\ footer[2].text = <<Len(tokens), " tokens">>
           /\ tokens = encode(Switcher.children[2].shows[2],
                              IF m.message.content = Absent THEN <<>>
                              ELSE m.message.content[1])
           /\ (m.message.content \in {Absent, Present(<<>>)} => footer[2].text[1] = 0)
           /\ ("timestamp" \notin DOMAIN m.message.additional_kwargs =>
                  footer[1].text = <<"Message sent at ", format_timestamp(0)>>)

\* A modal was composed for a message with neither content nor timestamp.
C10_Witness ==
    /\ Composed
    /\ modal[1].message.content = Absent
    /\ "timestamp" \notin DOMAIN modal[1].message.additional_kwargs

=============================================================================
